---- MODULE Spec2Model ----
(***************************************************************************)
(* Model of the chip8 front end (src/main.js): the display compositor      *)
(* (visible canvas, off-screen canvas_buffer, pixel_size), the             *)
(* requestAnimationFrame callback list, the audio nodes and the event      *)
(* listeners.  A canvas bitmap is the set of its white pixels <<px, py>>   *)
(* (both contexts are created with alpha: false, so every other pixel is   *)
(* black).  Every listener runs to completion (one action each); a paint   *)
(* tick runs every registered animation-frame callback.                    *)
(* Events are delivered after window.onload has run: Init is the state     *)
(* that window.onload leaves.                                              *)
(***************************************************************************)
EXTENDS Integers, Sequences, FiniteSets, TLC

VARIABLES
    game_container,  \* [offsetWidth, offsetHeight] of #game-container
    canvas,          \* [width, height] of the visible canvas #display
    canvas_buffer,   \* [width, height] of the off-screen canvas
    display,         \* bitmap of canvas (white pixels)
    display_buffer,  \* bitmap of canvas_buffer (white pixels)
    pixel_size,
    raf_callbacks,   \* number of registered animation-frame callbacks
    oscillator,      \* [created, starts]: starts counts oscillator.start() calls
    gain_node,       \* [created, gain]: gain in thousandths
    is_audio_started,
    outbound,        \* emit/invoke calls made by the last listener
    thrown,          \* a listener has thrown an exception
    event,           \* the event handled last
    mutations,       \* buffer mutations handled since the last paint tick
    frame_mutations, \* value of mutations when the last paint tick began
    frame_presents,  \* drawImage calls executed by the last paint tick
    gate_log,        \* rom-loaded / play-buzzer / pause-buzzer events handled, oldest first
    repeated,        \* the event handled last equals the one handled just before it
    steps            \* events handled so far

vars == <<game_container, canvas, canvas_buffer, display, display_buffer,
          pixel_size, raf_callbacks, oscillator, gain_node, is_audio_started,
          outbound, thrown, event, mutations, frame_mutations, frame_presents,
          gate_log, repeated, steps>>

(***************************************************************************)
(* Bounds of the model.                                                    *)
(***************************************************************************)
MaxSteps == 4
MaxContainerWidth == 150
MaxContainerHeight == 80

(***************************************************************************)
(* Program constants.                                                      *)
(***************************************************************************)
GridColumns == 64
GridRows == 32
AudibleGain == 5

(***************************************************************************)
(* Inputs.                                                                 *)
(***************************************************************************)
\* container sizes <<offsetWidth, offsetHeight>>: pixel_size 0, 0, 1 (ratio
\* exactly 2), 1 (ratio > 2), 2 (ratio < 2)
ContainerSizes ==
    { <<0, 0>>, <<63, 40>>, <<64, 32>>, <<200, 40>>, <<130, 100>> }
Origins == { <<0, 0>>, <<62, 0>>, <<126, 63>> }
Updates ==
    { << >>, << <<1, 1, 1, 1>> >>, << <<1>>, <<0, 1>> >>, << <<0, 0>> >> }
Roms == { <<1, 2>>, << >> }
KeyCodes == { "KeyQ", "Digit1" }

NoEvent == [name |-> "load", x |-> 0, y |-> 0, update |-> << >>,
            payload |-> << >>, key |-> ""]
Ev(n) == [NoEvent EXCEPT !.name = n]

Min(a, b) == IF a < b THEN a ELSE b

(***************************************************************************)
(* Canvas 2D primitives.                                                   *)
(***************************************************************************)
\* fillRect(x, y, w, h) with fillStyle white or black on a canvas of size cv,
\* clipped to the canvas; x, y >= 0.
FillRect(bitmap, cv, x, y, w, h, white) ==
    LET inside(px) == /\ px[1] >= x /\ px[1] < x + w /\ px[1] < cv.width
                      /\ px[2] >= y /\ px[2] < y + h /\ px[2] < cv.height
    IN  IF white
        THEN bitmap \cup { <<a, b>> \in (x .. (Min(x + w, cv.width) - 1))
                                     \X (y .. (Min(y + h, cv.height) - 1)) : TRUE }
        ELSE { px \in bitmap : ~inside(px) }

\* drawImage(src canvas, 0, 0) on a destination canvas: the source rectangle
\* replaces the destination pixels it covers.  A source canvas with a zero
\* dimension makes drawImage throw inside the callback; nothing is drawn.
DrawImage(dst, dstcv, src, srccv) ==
    IF srccv.width = 0 \/ srccv.height = 0
    THEN dst
    ELSE { px \in dst : ~(px[1] < srccv.width /\ px[2] < srccv.height) }
         \cup { px \in src : px[1] < dstcv.width /\ px[2] < dstcv.height }

(***************************************************************************)
(* resizeDisplay: the geometry it computes.                                *)
(***************************************************************************)
\* width / height > 2.0 in IEEE arithmetic on non-negative integers:
\* 0/0 is NaN (false), w/0 is Infinity (true).
AspectOver2(width, height) ==
    IF height = 0 THEN width > 0 ELSE width > 2 * height

\* variant: the wide branch keeps the container width
ResolveGeometryKeepWidth(offsetWidth, offsetHeight) ==
    IF AspectOver2(offsetWidth, offsetHeight)
    THEN LET height == (offsetHeight \div GridRows) * GridRows
         IN  [width |-> offsetWidth, height |-> height]
    ELSE LET width == (offsetWidth \div GridColumns) * GridColumns
             height == width \div 2
         IN  [width |-> width, height |-> height]

\* variant: the narrow branch floors the width to a multiple of 32
ResolveGeometryFloor32(offsetWidth, offsetHeight) ==
    IF AspectOver2(offsetWidth, offsetHeight)
    THEN LET height == (offsetHeight \div GridRows) * GridRows
             width == height * 2
         IN  [width |-> width, height |-> height]
    ELSE LET width == (offsetWidth \div GridRows) * GridRows
             height == width \div 2
         IN  [width |-> width, height |-> height]

\* variant: the canvas is always fitted to the container width
ResolveGeometryByWidth(offsetWidth, offsetHeight) ==
    LET width == (offsetWidth \div GridColumns) * GridColumns
        height == width \div 2
    IN  [width |-> width, height |-> height]

ResolveGeometry(offsetWidth, offsetHeight) ==
    IF AspectOver2(offsetWidth, offsetHeight)
    THEN LET height == (offsetHeight \div GridRows) * GridRows
             width == height * 2
         IN  [width |-> width, height |-> height]
    ELSE LET width == (offsetWidth \div GridColumns) * GridColumns
             height == width \div 2
         IN  [width |-> width, height |-> height]

PixelSizeOf(cv) == cv.height \div GridRows

(***************************************************************************)
(* draw-sprite: the fillRect calls of the nested forEach.                  *)
(***************************************************************************)
\* the cell column / row a bit of the update is painted in
\* variant: no wraparound of the column
DestColumnNoWrap(update_x, x_offset) == update_x + x_offset

DestColumn(update_x, x_offset) == (update_x + x_offset) % GridColumns

DestRow(update_y, y_offset) == (update_y + y_offset) % GridRows

\* variant: a set bit toggles the block (XOR), a clear bit leaves it
PaintBitXor(bitmap, cv, x, y, ps, bit) ==
    IF bit # 0
    THEN FillRect(bitmap, cv, x, y, ps, ps, <<x, y>> \notin bitmap)
    ELSE bitmap

\* one bit: fillStyle by the bit's truthiness, then fillRect(x, y, ps, ps)
PaintBit(bitmap, cv, x, y, ps, bit) ==
    FillRect(bitmap, cv, x, y, ps, ps, bit # 0)

RECURSIVE PaintByte(_, _, _, _, _, _, _, _)
PaintByte(bitmap, cv, ps, update_x, update_y, byte, y_offset, x_offset) ==
    IF x_offset >= Len(byte) THEN bitmap
    ELSE LET x == DestColumn(update_x, x_offset) * ps
             y == DestRow(update_y, y_offset) * ps
             bit == byte[x_offset + 1]
         IN  PaintByte(PaintBit(bitmap, cv, x, y, ps, bit),
                       cv, ps, update_x, update_y, byte, y_offset, x_offset + 1)

RECURSIVE PaintUpdate(_, _, _, _, _, _, _)
PaintUpdate(bitmap, cv, ps, update_x, update_y, update, y_offset) ==
    IF y_offset >= Len(update) THEN bitmap
    ELSE PaintUpdate(PaintByte(bitmap, cv, ps, update_x, update_y,
                               update[y_offset + 1], y_offset, 0),
                     cv, ps, update_x, update_y, update, y_offset + 1)

Blit(bitmap, cv, ps, update_x, update_y, update) ==
    PaintUpdate(bitmap, cv, ps, update_x, update_y, update, 0)

(***************************************************************************)
(* Initial state: module evaluation followed by window.onload.             *)
(***************************************************************************)
\* variant: the oscillator is started as soon as it is created
OnLoadOscillatorStarted == [created |-> TRUE, starts |-> 1]

\* audio_context.createOscillator(): created, not started
OnLoadOscillator == [created |-> TRUE, starts |-> 0]

\* audio_context.createGain() with gain.value = 0.0
OnLoadGainNode == [created |-> TRUE, gain |-> 0]

Init ==
    \E size \in ContainerSizes :
        LET cv == ResolveGeometry(size[1], size[2]) IN
        /\ game_container = [offsetWidth |-> size[1], offsetHeight |-> size[2]]
        /\ canvas = cv
        /\ canvas_buffer = cv
        /\ pixel_size = PixelSizeOf(cv)
        /\ display = {}
        /\ display_buffer = {}
        /\ raf_callbacks = 1
        /\ oscillator = OnLoadOscillator
        /\ gain_node = OnLoadGainNode
        /\ is_audio_started = FALSE
        /\ outbound = << >>
        /\ thrown = FALSE
        /\ event = NoEvent
        /\ mutations = 1
        /\ frame_mutations = 0
        /\ frame_presents = 0
        /\ gate_log = << >>
        /\ repeated = FALSE
        /\ steps = 0

GateEvents == {"rom-loaded", "play-buzzer", "pause-buzzer"}

\* one event is delivered to its listener; steps counts up to MaxSteps
Step(e) == /\ steps' = IF steps < MaxSteps THEN steps + 1 ELSE steps
           /\ event' = e
           /\ repeated' = (e = event)
           /\ gate_log' = IF e.name \in GateEvents
                          THEN Append(gate_log, e.name) ELSE gate_log

(***************************************************************************)
(* Listeners and callbacks.                                                *)
(***************************************************************************)
NoCall == [op |-> "", name |-> "", key |-> "", rom |-> << >>]

\* variant: the cleared rectangle is the grid size, not scaled by pixel_size
ClearDisplayUnscaled ==
    /\ display_buffer' = FillRect(display_buffer, canvas_buffer, 0, 0,
                                  GridColumns, GridRows, FALSE)
    /\ raf_callbacks' = raf_callbacks + 1
    /\ mutations' = mutations + 1

\* variant: the buffer is cleared but no refresh is requested
ClearDisplayNoRefresh ==
    /\ display_buffer' = FillRect(display_buffer, canvas_buffer, 0, 0,
                                  canvas_buffer.width, canvas_buffer.height, FALSE)
    /\ raf_callbacks' = raf_callbacks
    /\ mutations' = mutations + 1

\* clearDisplay(): black fillRect over the whole buffer, then
\* requestAnimationFrame(() => display.drawImage(canvas_buffer, 0, 0)).
ClearDisplay ==
    /\ display_buffer' = FillRect(display_buffer, canvas_buffer, 0, 0,
                                  canvas_buffer.width, canvas_buffer.height, FALSE)
    /\ raf_callbacks' = raf_callbacks + 1
    /\ mutations' = mutations + 1

\* oscillator.start() throws on a null oscillator and on a second call.
StartThrows == ~oscillator.created \/ oscillator.starts >= 1

\* variant: rom-loaded starts the oscillator every time
NeedsStartAlways == TRUE

\* if (!is_audio_started)
NeedsStart == ~is_audio_started

\* variant: the interpreter is initialised only by the rom-loaded that
\* starts the audio
RomLoadedInitOnce(payload) ==
    /\ Step([Ev("rom-loaded") EXCEPT !.payload = payload])
    /\ IF ~is_audio_started
       THEN /\ oscillator' = [oscillator EXCEPT !.starts = @ + 1]
            /\ is_audio_started' = TRUE
            /\ outbound' = << [NoCall EXCEPT !.op = "invoke",
                                             !.name = "initialize_interpreter",
                                             !.rom = payload] >>
       ELSE /\ outbound' = << >>
            /\ UNCHANGED <<oscillator, is_audio_started>>
    /\ ClearDisplay
    /\ UNCHANGED <<game_container, canvas, canvas_buffer, display, pixel_size,
                   gain_node, frame_mutations, frame_presents, thrown>>

RomLoaded(payload) ==
    /\ Step([Ev("rom-loaded") EXCEPT !.payload = payload])
    /\ IF NeedsStart
       THEN /\ oscillator' = [oscillator EXCEPT !.starts = @ + 1]
            /\ is_audio_started' = IF StartThrows THEN is_audio_started ELSE TRUE
       ELSE UNCHANGED <<oscillator, is_audio_started>>
    /\ IF NeedsStart /\ StartThrows
       THEN /\ thrown' = TRUE
            /\ outbound' = << >>
            /\ UNCHANGED <<display_buffer, raf_callbacks, mutations>>
       ELSE /\ ClearDisplay
            /\ outbound' = << [NoCall EXCEPT !.op = "invoke",
                                             !.name = "initialize_interpreter",
                                             !.rom = payload] >>
            /\ UNCHANGED thrown
    /\ UNCHANGED <<game_container, canvas, canvas_buffer, display, pixel_size,
                   gain_node, frame_mutations, frame_presents>>

Stop ==
    /\ Step(Ev("stop"))
    /\ ClearDisplay
    /\ outbound' = << >>
    /\ UNCHANGED <<game_container, canvas, canvas_buffer, display, pixel_size,
                   oscillator, gain_node, is_audio_started, thrown,
                   frame_mutations, frame_presents>>

Clear ==
    /\ Step(Ev("clear"))
    /\ ClearDisplay
    /\ outbound' = << >>
    /\ UNCHANGED <<game_container, canvas, canvas_buffer, display, pixel_size,
                   oscillator, gain_node, is_audio_started, thrown,
                   frame_mutations, frame_presents>>

\* variant: each buzzer command flips the gain
SetGainToggle(v) ==
    /\ gain_node' = [gain_node EXCEPT !.gain = AudibleGain - @]
    /\ outbound' = << >>
    /\ UNCHANGED <<game_container, canvas, canvas_buffer, display, display_buffer,
                   pixel_size, raf_callbacks, oscillator, is_audio_started,
                   mutations, frame_mutations, frame_presents, thrown>>

\* variant: setting the gain also starts an oscillator not yet started
SetGainAndStart(v) ==
    /\ gain_node' = [gain_node EXCEPT !.gain = v]
    /\ oscillator' = IF is_audio_started THEN oscillator
                     ELSE [oscillator EXCEPT !.starts = @ + 1]
    /\ is_audio_started' = TRUE
    /\ outbound' = << >>
    /\ UNCHANGED <<game_container, canvas, canvas_buffer, display, display_buffer,
                   pixel_size, raf_callbacks, mutations, frame_mutations,
                   frame_presents, thrown>>

\* gain_node.gain.value = v; throws when gain_node is null.
SetGain(v) ==
    /\ IF gain_node.created
       THEN gain_node' = [gain_node EXCEPT !.gain = v] /\ UNCHANGED thrown
       ELSE thrown' = TRUE /\ UNCHANGED gain_node
    /\ outbound' = << >>
    /\ UNCHANGED <<game_container, canvas, canvas_buffer, display, display_buffer,
                   pixel_size, raf_callbacks, oscillator, is_audio_started,
                   mutations, frame_mutations, frame_presents>>

PlayBuzzer == Step(Ev("play-buzzer")) /\ SetGain(AudibleGain)

PauseBuzzer == Step(Ev("pause-buzzer")) /\ SetGain(0)

\* variant: the sprite is painted straight onto the visible canvas
DrawSpriteDirect(update_x, update_y, update) ==
    /\ Step([Ev("draw-sprite") EXCEPT !.x = update_x, !.y = update_y,
                                      !.update = update])
    /\ display' = Blit(display, canvas, pixel_size, update_x, update_y, update)
    /\ outbound' = << >>
    /\ UNCHANGED <<game_container, canvas, canvas_buffer, display_buffer,
                   pixel_size, raf_callbacks, mutations, oscillator, gain_node,
                   is_audio_started, thrown, frame_mutations, frame_presents>>

\* variant: the sprite is painted into the buffer and no refresh is requested
DrawSpriteNoRefresh(update_x, update_y, update) ==
    /\ Step([Ev("draw-sprite") EXCEPT !.x = update_x, !.y = update_y,
                                      !.update = update])
    /\ display_buffer' = Blit(display_buffer, canvas_buffer, pixel_size,
                              update_x, update_y, update)
    /\ mutations' = mutations + 1
    /\ outbound' = << >>
    /\ UNCHANGED <<game_container, canvas, canvas_buffer, display, pixel_size,
                   raf_callbacks, oscillator, gain_node, is_audio_started,
                   thrown, frame_mutations, frame_presents>>

DrawSprite(update_x, update_y, update) ==
    /\ Step([Ev("draw-sprite") EXCEPT !.x = update_x, !.y = update_y,
                                      !.update = update])
    /\ display_buffer' = Blit(display_buffer, canvas_buffer, pixel_size,
                              update_x, update_y, update)
    /\ raf_callbacks' = raf_callbacks + 1
    /\ mutations' = mutations + 1
    /\ outbound' = << >>
    /\ UNCHANGED <<game_container, canvas, canvas_buffer, display, pixel_size,
                   oscillator, gain_node, is_audio_started, thrown,
                   frame_mutations, frame_presents>>

\* variant: the off-screen canvas is not resized with the visible one
ResizeDisplayKeepsBuffer(offsetWidth, offsetHeight) ==
    LET cv == ResolveGeometry(offsetWidth, offsetHeight) IN
    /\ Step(Ev("resize"))
    /\ game_container' = [offsetWidth |-> offsetWidth, offsetHeight |-> offsetHeight]
    /\ canvas' = cv
    /\ display' = {}
    /\ pixel_size' = PixelSizeOf(cv)
    /\ outbound' = << >>
    /\ UNCHANGED <<canvas_buffer, display_buffer, raf_callbacks, oscillator,
                   gain_node, is_audio_started, thrown, mutations,
                   frame_mutations, frame_presents>>

\* window resize: resizeDisplay().  Assigning canvas.width / canvas.height
\* resets the canvas bitmap, also when the value does not change.
ResizeDisplay(offsetWidth, offsetHeight) ==
    LET cv == ResolveGeometry(offsetWidth, offsetHeight) IN
    /\ Step(Ev("resize"))
    /\ game_container' = [offsetWidth |-> offsetWidth, offsetHeight |-> offsetHeight]
    /\ canvas' = cv
    /\ display' = {}
    /\ pixel_size' = PixelSizeOf(cv)
    /\ canvas_buffer' = cv
    /\ display_buffer' = {}
    /\ outbound' = << >>
    /\ UNCHANGED <<raf_callbacks, oscillator, gain_node, is_audio_started,
                   thrown, mutations, frame_mutations, frame_presents>>

\* window keydown / keyup listeners: emit(name, { key: `${e.code}` }).
KeyEvent(name, code) ==
    /\ Step([Ev(name) EXCEPT !.key = code])
    /\ outbound' = << [NoCall EXCEPT !.op = "emit", !.name = name, !.key = code] >>
    /\ UNCHANGED <<game_container, canvas, canvas_buffer, display, display_buffer,
                   pixel_size, raf_callbacks, oscillator, gain_node,
                   is_audio_started, thrown, mutations, frame_mutations,
                   frame_presents>>

KeyDown(code) == KeyEvent("keydown", code)

\* variant: the keyup listener emits keydown
KeyUpEmitsKeyDown(code) ==
    /\ Step([Ev("keyup") EXCEPT !.key = code])
    /\ outbound' = << [NoCall EXCEPT !.op = "emit", !.name = "keydown", !.key = code] >>
    /\ UNCHANGED <<game_container, canvas, canvas_buffer, display, display_buffer,
                   pixel_size, raf_callbacks, oscillator, gain_node,
                   is_audio_started, thrown, mutations, frame_mutations,
                   frame_presents>>

KeyUp(code) == KeyEvent("keyup", code)

\* The animation-frame callbacks, run one after the other: each is
\* display.drawImage(canvas_buffer, 0, 0).
RECURSIVE RunCallbacks(_, _)
RunCallbacks(n, bitmap) ==
    IF n = 0 THEN bitmap
    ELSE RunCallbacks(n - 1, DrawImage(bitmap, canvas, display_buffer, canvas_buffer))

\* A paint tick: every callback registered since the previous tick runs once.
PaintTick ==
    /\ Step(Ev("paint"))
    /\ display' = RunCallbacks(raf_callbacks, display)
    /\ raf_callbacks' = 0
    /\ frame_presents' = raf_callbacks
    /\ frame_mutations' = mutations
    /\ mutations' = 0
    /\ outbound' = << >>
    /\ UNCHANGED <<game_container, canvas, canvas_buffer, display_buffer,
                   pixel_size, oscillator, gain_node, is_audio_started, thrown>>

\* the model handles at most MaxSteps events
Bounded == steps < MaxSteps

Next ==
    \/ Bounded /\ \E payload \in Roms : RomLoaded(payload)
    \/ Bounded /\ Stop
    \/ Bounded /\ Clear
    \/ Bounded /\ PlayBuzzer
    \/ Bounded /\ PauseBuzzer
    \/ Bounded /\ \E o \in Origins, update \in Updates : DrawSprite(o[1], o[2], update)
    \/ Bounded /\ \E size \in ContainerSizes : ResizeDisplay(size[1], size[2])
    \/ Bounded /\ \E code \in KeyCodes : KeyDown(code)
    \/ Bounded /\ \E code \in KeyCodes : KeyUp(code)
    \/ Bounded /\ PaintTick

Spec == Init /\ [][Next]_vars

\* Liveness: the events that touch the canvases, and animation frames, which
\* the browser keeps running also after the last event the model delivers;
\* every registered callback runs at the next frame.
NextLive ==
    \/ Bounded /\ \E payload \in Roms : RomLoaded(payload)
    \/ Bounded /\ Stop
    \/ Bounded /\ Clear
    \/ Bounded /\ \E o \in Origins, update \in Updates : DrawSprite(o[1], o[2], update)
    \/ Bounded /\ \E size \in ContainerSizes : ResizeDisplay(size[1], size[2])
    \/ PaintTick

SpecLive == Init /\ [][NextLive]_vars /\ WF_vars(PaintTick)

\* Resizes alone, of any number: the window edge is dragged by a pixel or
\* jumps by a grid width or height, within the bounds.
ResizeDeltas == { -64, -32, -1, 0, 1, 32, 64 }

\* the window is maximised to, or restored from, a large container
ScenarioSizes == { <<1000, 400>>, <<64, 32>> }

NextGeometry ==
    \/ \E dw \in ResizeDeltas, dh \in ResizeDeltas :
          LET w == game_container.offsetWidth + dw
              h == game_container.offsetHeight + dh
          IN  /\ w \in 0 .. MaxContainerWidth
              /\ h \in 0 .. MaxContainerHeight
              /\ ResizeDisplay(w, h)
    \/ \E size \in ScenarioSizes : ResizeDisplay(size[1], size[2])

SpecGeometry == Init /\ [][NextGeometry]_vars

(***************************************************************************)
(* Vocabulary of the properties.                                           *)
(***************************************************************************)
\* cell c = <<column, row>> is on: its whole pixel block is white
CellOn(bitmap, ps, c) ==
    /\ ps >= 1
    /\ \A a \in (c[1] * ps) .. (c[1] * ps + ps - 1),
          b \in (c[2] * ps) .. (c[2] * ps + ps - 1) : <<a, b>> \in bitmap

OnCells(bitmap, ps) ==
    IF ps = 0 THEN {}
    ELSE { c \in { <<px[1] \div ps, px[2] \div ps>> : px \in bitmap } :
             CellOn(bitmap, ps, c) }

\* the cells a sprite update at (x, y) addresses, and those whose bit is 1
TargetCells(x, y, update) ==
    UNION { { <<(x + i) % 64, (y + j) % 32>> : i \in 0 .. (Len(update[j + 1]) - 1) } :
            j \in 0 .. (Len(update) - 1) }

SetCells(x, y, update) ==
    UNION { { <<(x + i) % 64, (y + j) % 32>> :
                i \in { k \in 0 .. (Len(update[j + 1]) - 1) : update[j + 1][k + 1] = 1 } } :
            j \in 0 .. (Len(update) - 1) }

RomLoads == Cardinality({ i \in DOMAIN gate_log : gate_log[i] = "rom-loaded" })

\* the tone is heard: the oscillator runs and the gain is above zero
Audible == oscillator.starts >= 1 /\ gain_node.gain > 0

(***************************************************************************)
(* C1: when N >= 1 mutations are handled between two paint ticks, the      *)
(* next paint tick executes exactly one present(), i.e. one drawImage of   *)
(* the buffer onto the visible canvas.                                     *)
(***************************************************************************)
C1_OnePresentPerTick ==
    (event.name = "paint" /\ frame_mutations >= 1) => frame_presents = 1

(***************************************************************************)
(* C2: the visible canvas right after a paint tick that presents equals    *)
(* the buffer as every command handled before the tick left it, and the    *)
(* visible canvas changes in no other step than a paint tick or a resize   *)
(* (which blanks it), so no partly applied update is ever shown.           *)
(***************************************************************************)
C2_NoIntermediateStateVisible ==
    [][ /\ (event'.name = "paint" /\ raf_callbacks > 0) =>
               (display' = display_buffer /\ display_buffer' = display_buffer)
        /\ (display' # display) => event'.name \in {"paint", "resize"}
        /\ (display' # display /\ event'.name = "resize") => display' = {}
      ]_vars

C2_Witness ==
    /\ event.name = "paint"
    /\ frame_mutations >= 2
    /\ display = display_buffer
    /\ OnCells(display, pixel_size) # {}

(***************************************************************************)
(* C3: a resize to a container that gives pixel_size >= 1 leaves the set   *)
(* of cells that are on in the pixel surface as it was before the resize.  *)
(***************************************************************************)
C3_ResizeKeepsContent ==
    [][ (event'.name = "resize" /\ pixel_size' >= 1) =>
            OnCells(display_buffer', pixel_size') = OnCells(display_buffer, pixel_size)
      ]_vars

(***************************************************************************)
(* C4: the oscillator is started at most once: the first rom-loaded starts *)
(* it and no later rom-loaded starts it again; it is never recreated.      *)
(***************************************************************************)
C4_ToneSourceStartedAtMostOnce ==
    /\ oscillator.created
    /\ oscillator.starts <= 1
    /\ (RomLoads >= 1) <=> (oscillator.starts = 1)

C4_Witness ==
    /\ RomLoads >= 2
    /\ event.name = "rom-loaded"
    /\ oscillator.starts = 1
    /\ is_audio_started

(***************************************************************************)
(* C5: play-buzzer / pause-buzzer before the first rom-loaded change       *)
(* nothing in the audio gate: the gain is zero until the first rom-loaded  *)
(* and is still zero right after it.                                       *)
(***************************************************************************)
C5_EarlyToggleIsNoOp ==
    /\ RomLoads = 0 => gain_node.gain = 0
    /\ (RomLoads = 1 /\ event.name = "rom-loaded") => gain_node.gain = 0

(***************************************************************************)
(* C6: no listener throws; before any rom-loaded the tone is never heard,  *)
(* whatever play-buzzer commands arrive; once a rom-loaded has been        *)
(* handled, a play-buzzer makes the tone heard.                            *)
(***************************************************************************)
C6_EarlyBuzzerSilentLaterAudible ==
    /\ ~thrown
    /\ RomLoads = 0 => ~Audible
    /\ (RomLoads >= 1 /\ event.name = "play-buzzer") => Audible

C6_Witness ==
    /\ gate_log = <<"play-buzzer", "rom-loaded", "play-buzzer">>
    /\ event.name = "play-buzzer"
    /\ Audible
    /\ ~thrown

(***************************************************************************)
(* C7: a draw-sprite at a non-negative origin (x, y) changes pixels only   *)
(* inside the blocks of the cells ((x + i) mod 64, (y + j) mod 32) of its  *)
(* bits, all of them inside the 64x32 grid and inside the canvas; every    *)
(* other cell keeps its state.  At origin (62, 0) the update [[1,1,1,1]]   *)
(* addresses exactly the cells (62,0), (63,0), (0,0), (1,0) and, when      *)
(* pixel_size >= 1, sets them; an empty update changes nothing.            *)
(***************************************************************************)
C7_BlitTouchesOnlyTargets ==
    [][ event'.name = "draw-sprite" =>
          LET T == TargetCells(event'.x, event'.y, event'.update)
              changed == (display_buffer' \ display_buffer)
                            \cup (display_buffer \ display_buffer')
          IN  /\ \A c \in T : c[1] \in 0 .. 63 /\ c[2] \in 0 .. 31
              /\ \A px \in changed :
                    /\ px[1] < canvas_buffer.width /\ px[2] < canvas_buffer.height
                    /\ <<px[1] \div pixel_size, px[2] \div pixel_size>> \in T
              /\ OnCells(display_buffer', pixel_size) \ T
                    = OnCells(display_buffer, pixel_size) \ T
              /\ (event'.x = 62 /\ event'.y = 0 /\ event'.update = << <<1, 1, 1, 1>> >>) =>
                    /\ T = { <<62, 0>>, <<63, 0>>, <<0, 0>>, <<1, 0>> }
                    /\ pixel_size >= 1 =>
                          \A c \in T : CellOn(display_buffer', pixel_size, c)
              /\ event'.update = << >> => display_buffer' = display_buffer
      ]_vars

C7_Witness ==
    /\ event.name = "draw-sprite"
    /\ event.x = 62 /\ event.y = 0 /\ event.update = << <<1, 1, 1, 1>> >>
    /\ pixel_size >= 1
    /\ OnCells(display_buffer, pixel_size)
          = { <<62, 0>>, <<63, 0>>, <<0, 0>>, <<1, 0>> }

(***************************************************************************)
(* C8: after a draw-sprite applied with pixel_size >= 1, each cell the     *)
(* update addresses is on exactly when its bit is 1, whatever it was       *)
(* before (overwrite, not XOR).                                            *)
(***************************************************************************)
C8_BlitOverwrites ==
    (event.name = "draw-sprite" /\ pixel_size >= 1) =>
        \A c \in TargetCells(event.x, event.y, event.update) :
            CellOn(display_buffer, pixel_size, c)
                <=> c \in SetCells(event.x, event.y, event.update)

\* (0,0) and (1,0) were on before this update (the cells (2,0), (3,0) it does
\* not address still are): bit 1 on (0,0) kept it on, bit 0 on (1,0) cleared it
C8_Witness ==
    /\ event.name = "draw-sprite"
    /\ event.x = 0 /\ event.y = 0 /\ event.update = << <<1>>, <<0, 1>> >>
    /\ pixel_size >= 1
    /\ OnCells(display_buffer, pixel_size)
          = { <<0, 0>>, <<1, 0>>, <<2, 0>>, <<3, 0>>, <<1, 1>> }

(***************************************************************************)
(* C9: a draw-sprite handled while pixel_size = 0 is not lost: when the    *)
(* container is then resized so that pixel_size >= 1, the cells the        *)
(* update set are on in the pixel surface.                                 *)
(***************************************************************************)
C9_UpdateAtZeroSizeSurvivesResize ==
    [][ ( /\ event.name = "draw-sprite" /\ pixel_size = 0
          /\ event'.name = "resize" /\ pixel_size' >= 1 ) =>
            \A c \in SetCells(event.x, event.y, event.update) :
                CellOn(display_buffer', pixel_size', c)
      ]_vars

(***************************************************************************)
(* C10: after every resize, for every container width and height >= 0,     *)
(* canvas_width = 2 * canvas_height and pixel_size is                      *)
(* floor(canvas_height / 32), which is >= 0.                               *)
(***************************************************************************)
C10_AspectInvariant ==
    /\ canvas.width = 2 * canvas.height
    /\ pixel_size * 32 <= canvas.height
    /\ canvas.height < (pixel_size + 1) * 32
    /\ pixel_size >= 0

C10_Witness ==
    /\ event.name = "resize"
    /\ steps >= 2
    /\ game_container.offsetWidth > 2 * game_container.offsetHeight
    /\ game_container.offsetHeight % 32 # 0
    /\ pixel_size >= 2
    /\ canvas.width = 2 * canvas.height

(***************************************************************************)
(* C11: for every container size the canvas is resolved as stated: when    *)
(* container_width / container_height > 2.0 (a zero height with a          *)
(* positive width divides to Infinity), canvas_height is                   *)
(* floor(container_height / 32) * 32 and canvas_width twice that;          *)
(* otherwise, a ratio of exactly 2.0 included, canvas_width is             *)
(* floor(container_width / 64) * 64 and canvas_height half of it.  A       *)
(* 1000x400 container gives 768x384 and pixel_size 12.                     *)
(***************************************************************************)
C11_GeometryAsStated ==
    LET w == game_container.offsetWidth
        h == game_container.offsetHeight
        wide == IF h = 0 THEN w > 0 ELSE w > 2 * h
    IN  /\ wide => /\ canvas.height = (h \div 32) * 32
                   /\ canvas.width = 2 * canvas.height
        /\ ~wide => /\ canvas.width = (w \div 64) * 64
                    /\ 2 * canvas.height = canvas.width
        /\ (w = 1000 /\ h = 400) =>
               canvas.height = 384 /\ canvas.width = 768 /\ pixel_size = 12

C11_Witness ==
    /\ event.name = "resize"
    /\ game_container = [offsetWidth |-> 1000, offsetHeight |-> 400]
    /\ canvas = [width |-> 768, height |-> 384]
    /\ pixel_size = 12

(***************************************************************************)
(* C12: after a clear, and after a stop, every cell of the pixel surface   *)
(* (the off-screen buffer) is background, whatever it held before; a       *)
(* clear handled right after a clear leaves the same all-background grid.  *)
(***************************************************************************)
C12_ClearBlanksAndIsIdempotent ==
    [][ /\ event'.name \in {"clear", "stop"} =>
              /\ display_buffer' = {}
              /\ OnCells(display_buffer', pixel_size') = {}
        /\ (event.name = "clear" /\ event'.name = "clear") =>
              display_buffer' = display_buffer
      ]_vars

\* the visible canvas still shows what the buffer held at the last paint
\* tick; the two clears are the only mutations since
C12_Witness ==
    /\ event.name = "clear"
    /\ repeated
    /\ mutations = 2
    /\ display_buffer = {}
    /\ OnCells(display, pixel_size) # {}

(***************************************************************************)
(* C13: rom-loaded, draw-sprite(x, y, rows), play-buzzer and pause-buzzer  *)
(* are idempotent on the pixel grid and the audio gate: in every           *)
(* reachable state, handling the command that was just handled once more   *)
(* leaves the buffer, the oscillator (started or not) and the gain as the  *)
(* first handling left them.                                               *)
(***************************************************************************)
C13_CommandsIdempotent ==
    [][ ( /\ event'.name \in {"rom-loaded", "draw-sprite", "play-buzzer", "pause-buzzer"}
          /\ event' = event ) =>
            /\ display_buffer' = display_buffer
            /\ oscillator' = oscillator
            /\ is_audio_started' = is_audio_started
            /\ gain_node' = gain_node
      ]_vars

C13_Witness ==
    /\ repeated
    /\ event.name = "draw-sprite"
    /\ event.update = << <<1>>, <<0, 1>> >>
    /\ pixel_size >= 1
    /\ OnCells(display_buffer, pixel_size) # {}
    /\ is_audio_started

(***************************************************************************)
(* C14: every rom-loaded, whether or not the oscillator was already        *)
(* started, leaves the pixel surface (the buffer) all background and       *)
(* makes exactly one initialize_interpreter call, whose rom argument is    *)
(* the event's payload unmodified.                                         *)
(***************************************************************************)
C14_RomLoadedClearsAndForwards ==
    event.name = "rom-loaded" =>
        /\ display_buffer = {}
        /\ outbound = << [op |-> "invoke", name |-> "initialize_interpreter",
                          key |-> "", rom |-> event.payload] >>

\* a second rom-loaded, with a non-empty payload, over a buffer that held
\* content the visible canvas still shows
C14_Witness ==
    /\ event.name = "rom-loaded"
    /\ RomLoads >= 2
    /\ event.payload = <<1, 2>>
    /\ Len(outbound) = 1 /\ outbound[1].rom = <<1, 2>>
    /\ mutations = 1
    /\ OnCells(display, pixel_size) # {}
    /\ display_buffer = {}

(***************************************************************************)
(* C15: every key-down / key-up event makes, while it is handled, exactly  *)
(* one emit to the engine, named keydown / keyup and carrying the event's  *)
(* key code, in every state of the grid and the audio gate; it changes     *)
(* neither the pixel surface (buffer, visible canvas, pending refreshes,   *)
(* geometry) nor the audio gate.                                           *)
(***************************************************************************)
C15_KeysForwardedUnchanged ==
    [][ event'.name \in {"keydown", "keyup"} =>
          /\ outbound' = << [op |-> "emit", name |-> event'.name,
                             key |-> event'.key, rom |-> << >>] >>
          /\ UNCHANGED <<display, display_buffer, raf_callbacks, canvas,
                         canvas_buffer, pixel_size, oscillator, gain_node,
                         is_audio_started, thrown>>
      ]_vars

\* a keyup handled with the gain raised and sprite content in the buffer
C15_Witness ==
    /\ event.name = "keyup"
    /\ event.key = "Digit1"
    /\ outbound = << [op |-> "emit", name |-> "keyup", key |-> "Digit1",
                      rom |-> << >>] >>
    /\ OnCells(display_buffer, pixel_size) # {}
    /\ gain_node.gain > 0

(***************************************************************************)
(* C16: every mutation (clear, stop, rom-loaded, draw-sprite) is followed, *)
(* as long as paint ticks keep firing, by a paint tick that runs a         *)
(* present(), after which the visible canvas equals the buffer, that       *)
(* mutation and any later one included.                                    *)
(***************************************************************************)
C16_MutationEventuallyPresented ==
    (mutations > 0) ~>
        (event.name = "paint" /\ frame_presents >= 1 /\ mutations = 0
            /\ display = display_buffer)

\* the last delivered event was a draw-sprite; the tick after it presents it
C16_Witness ==
    /\ steps = MaxSteps
    /\ event.name = "paint"
    /\ frame_mutations = 1
    /\ frame_presents = 1
    /\ ~repeated
    /\ OnCells(display, pixel_size) # {}
    /\ display = display_buffer

(***************************************************************************)
(* C17: in every reachable state (window.onload has resized once), the     *)
(* off-screen canvas is 64 * pixel_size wide and 32 * pixel_size high,     *)
(* and has the width and height of the visible canvas.                     *)
(***************************************************************************)
C17_BufferSizedToGrid ==
    /\ canvas_buffer.width = 64 * pixel_size
    /\ canvas_buffer.height = 32 * pixel_size
    /\ canvas_buffer.width = canvas.width
    /\ canvas_buffer.height = canvas.height

C17_Witness ==
    /\ event.name = "resize"
    /\ repeated
    /\ game_container.offsetWidth % 64 # 0
    /\ game_container.offsetHeight % 32 # 0
    /\ pixel_size = 2
    /\ canvas_buffer = [width |-> 128, height |-> 64]

(***************************************************************************)
(* C18: play-buzzer sets the gain to the audible constant (0.005) and      *)
(* pause-buzzer sets it to 0, so the gain is always one of the two; both   *)
(* leave the oscillator (its identity and its started/stopped state), the  *)
(* audio-started flag, both bitmaps, the pending refreshes and the         *)
(* geometry as they were.                                                  *)
(***************************************************************************)
C18_BuzzerChangesOnlyGain ==
    [][ /\ gain_node'.gain \in {0, AudibleGain}
        /\ event'.name = "play-buzzer" => gain_node'.gain = AudibleGain
        /\ event'.name = "pause-buzzer" => gain_node'.gain = 0
        /\ event'.name \in {"play-buzzer", "pause-buzzer"} =>
              UNCHANGED <<oscillator, is_audio_started, display, display_buffer,
                          raf_callbacks, canvas, canvas_buffer, pixel_size,
                          game_container>>
      ]_vars

C18_Witness ==
    /\ gate_log = <<"rom-loaded", "play-buzzer", "pause-buzzer">>
    /\ event.name = "pause-buzzer"
    /\ gain_node.gain = 0
    /\ oscillator.starts = 1
    /\ OnCells(display_buffer, pixel_size) # {}

(***************************************************************************)
(* C19: whenever no animation-frame callback is pending, the visible       *)
(* canvas shows exactly what the off-screen buffer holds, whatever the     *)
(* interleaving of commands, paint ticks and resizes.                      *)
(***************************************************************************)
C19_QuiescentSurfacesAgree ==
    raf_callbacks = 0 => display = display_buffer

\* a resize, a sprite, then the paint tick that runs both pending callbacks
C19_Witness ==
    /\ raf_callbacks = 0
    /\ event.name = "paint"
    /\ steps = 3
    /\ frame_presents = 2
    /\ game_container.offsetWidth = 130
    /\ OnCells(display_buffer, pixel_size) # {}
    /\ display = display_buffer

(***************************************************************************)
(* C20: for a container W wide and H high, pixel_size is the largest p     *)
(* with 64 * p <= W and 32 * p <= H, that is min(W \div 64, H \div 32);    *)
(* the canvas is never wider or higher than the container; and pixel_size  *)
(* is 0 exactly when W < 64 or H < 32.                                     *)
(***************************************************************************)
C20_PixelSizeIsLargestFit ==
    LET W == game_container.offsetWidth
        H == game_container.offsetHeight
    IN  /\ pixel_size = Min(W \div 64, H \div 32)
        /\ 64 * pixel_size <= W /\ 32 * pixel_size <= H
        /\ 64 * (pixel_size + 1) > W \/ 32 * (pixel_size + 1) > H
        /\ canvas.width <= W
        /\ canvas.height <= H
        /\ pixel_size = 0 <=> (W < 64 \/ H < 32)

\* a wide container with room for two more columns of cells than rows allow
C20_Witness ==
    /\ event.name = "resize"
    /\ game_container.offsetWidth \div 64 > game_container.offsetHeight \div 32
    /\ game_container.offsetWidth \div 64 = 2
    /\ game_container.offsetHeight \div 32 = 1
    /\ pixel_size = 1
    /\ canvas.width < game_container.offsetWidth
====
